---- MODULE Spec2Model ----
(***************************************************************************)
(* Model of src/server.py: the latest-value relay between one device       *)
(* (POST /upload, POST /upload-audio) and its viewers (GET /stream,        *)
(* GET /audio-stream, GET /status).  Flask runs with threaded=True, so     *)
(* every request is served by its own thread; a thread switch can happen   *)
(* between any two statements, and inside "x += 1" between the load of x   *)
(* and the store of x.  time.time() is the variable now, in whole seconds. *)
(***************************************************************************)
EXTENDS Integers, FiniteSets, TLC

\* ---------------------------------------------------------------- bounds
NumUploaders == 2
NumViewers == 2
NumStatus == 1
MaxTime == 1
MaxAge == 11

\* ------------------------------------------------------ program constants
MAX_CLIENTS == 10
FRAME_EXPIRY_SECONDS == 10
AUDIO_EXPIRY_SECONDS == 5

Uploaders == 1..NumUploaders
Viewers == 1..NumViewers
StatusReqs == 1..NumStatus

\* request.data of an upload: Empty is the empty (or absent) body
Empty == "empty"
Payloads == {"p1", "p2"}
Bodies == Payloads \cup {Empty}

None == "None"
\* float('inf'), the age of a slot that was never set: above every age
Inf == 999999

\* thread identities, as the holders of the two locks
NoThread == <<"none", 0>>
UpThread(u) == <<"upload", u>>
ViewThread(v) == <<"viewer", v>>
StatusThread(t) == <<"status", t>>

\* what a generator hands to the transport at a yield
NoUnit == [kind |-> "none"]
Frame(bytes) == [kind |-> "frame", payload |-> bytes]
\* base64.b64encode(audio).decode('utf-8') of the two payloads (the third
\* text stands for the encoding of anything else)
b64encode(bytes) == IF bytes = "p1" THEN "cDE=" ELSE IF bytes = "p2" THEN "cDI=" ELSE "Tm9uZQ=="
AudioEvent(bytes) == [kind |-> "audio", payload |-> b64encode(bytes)]
Heartbeat(t) == [kind |-> "heartbeat", time |-> t]

\* the JSON body of a /status response that has not been sent
NoResponse == [status |-> "none"]

\* now: time.time().  up_*, request_data: the upload threads.  v_*: the
\* generator threads (v_reg is the value loaded by "+= 1" / "-= 1", v_item and
\* v_time the snapshot, v_out the unit at the yield).  st_*: the status threads.
\* History variables, read by no action: v_decs counts the decrements a
\* session has made, written_* are the pairs the uploads have stored and
\* last_* is the pair of the last upload that left its with block.
VARIABLES
    now,
    current_frame, frame_time, current_audio, audio_time,
    clients_count, audio_clients_count,
    lock, audio_lock,
    up_fn, up_pc, request_data, up_resp,
    v_fn, v_pc, v_reg, v_item, v_time, v_out, v_decs,
    st_pc, st_text, st_age, st_last, st_audio_text, st_audio_age, st_resp,
    written_video, written_audio, last_video, last_audio

slots == <<current_frame, frame_time, current_audio, audio_time>>
counters == <<clients_count, audio_clients_count>>
locks == <<lock, audio_lock>>
upvars == <<up_fn, up_pc, request_data, up_resp>>
viewvars == <<v_fn, v_pc, v_reg, v_item, v_time, v_out, v_decs>>
stvars == <<st_pc, st_text, st_age, st_last, st_audio_text, st_audio_age, st_resp>>
history == <<written_video, written_audio, last_video, last_audio>>
vars == <<now, slots, counters, locks, upvars, viewvars, stvars, history>>

Init ==
    /\ now = 0
    /\ current_frame = None /\ frame_time = 0
    /\ current_audio = None /\ audio_time = 0
    /\ clients_count = 0 /\ audio_clients_count = 0
    /\ lock = NoThread /\ audio_lock = NoThread
    /\ up_fn = [u \in Uploaders |-> "none"]
    /\ up_pc = [u \in Uploaders |-> "idle"]
    /\ request_data = [u \in Uploaders |-> Empty]
    /\ up_resp = [u \in Uploaders |-> 0]
    /\ v_fn = [v \in Viewers |-> "none"]
    /\ v_pc = [v \in Viewers |-> "idle"]
    /\ v_reg = [v \in Viewers |-> 0]
    /\ v_item = [v \in Viewers |-> None]
    /\ v_time = [v \in Viewers |-> 0]
    /\ v_out = [v \in Viewers |-> NoUnit]
    /\ v_decs = [v \in Viewers |-> 0]
    /\ st_pc = [t \in StatusReqs |-> "idle"]
    /\ st_text = [t \in StatusReqs |-> "none"]
    /\ st_age = [t \in StatusReqs |-> Inf]
    /\ st_last = [t \in StatusReqs |-> <<"none", 0>>]
    /\ st_audio_text = [t \in StatusReqs |-> "none"]
    /\ st_audio_age = [t \in StatusReqs |-> Inf]
    /\ st_resp = [t \in StatusReqs |-> NoResponse]
    /\ written_video = {} /\ written_audio = {}
    /\ last_video = <<None, 0>> /\ last_audio = <<None, 0>>

\* ------------------------------------------------------------------ clock
Tick(max) ==
    /\ now < max
    /\ now' = now + 1
    /\ UNCHANGED <<slots, counters, locks, upvars, viewvars, stvars, history>>

\* ------------------------------------------------------- POST /upload
\* upload without the test of lines 320-321: every body is stored
upload_unchecked(u) ==
    /\ up_pc[u] = "idle"
    /\ \E data \in Bodies :
        /\ request_data' = [request_data EXCEPT ![u] = data]
        /\ up_resp' = up_resp
        /\ up_pc' = [up_pc EXCEPT ![u] = "lock"]
        /\ up_fn' = [up_fn EXCEPT ![u] = "upload"]
    /\ UNCHANGED <<now, slots, counters, locks, viewvars, stvars, history>>

\* lines 320-321: an empty body is answered 400 before anything is touched
upload(u) ==
    /\ up_pc[u] = "idle"
    /\ \E data \in Bodies :
        /\ request_data' = [request_data EXCEPT ![u] = data]
        /\ IF data = Empty
           THEN /\ up_resp' = [up_resp EXCEPT ![u] = 400]
                /\ up_pc' = [up_pc EXCEPT ![u] = "done"]
                /\ up_fn' = up_fn
           ELSE /\ up_resp' = up_resp
                /\ up_pc' = [up_pc EXCEPT ![u] = "lock"]
                /\ up_fn' = [up_fn EXCEPT ![u] = "upload"]
    /\ UNCHANGED <<now, slots, counters, locks, viewvars, stvars, history>>

\* line 323: with lock (acquire)
upload_lock(u) ==
    /\ up_fn[u] = "upload" /\ up_pc[u] = "lock"
    /\ lock = NoThread
    /\ lock' = UpThread(u)
    /\ up_pc' = [up_pc EXCEPT ![u] = "set_frame"]
    /\ UNCHANGED <<now, slots, counters, audio_lock, up_fn, request_data, up_resp,
                   viewvars, stvars, history>>

\* upload_set_frame with line 325 moved out of the with block: the lock is
\* released between the two stores
upload_set_frame_releases(u) ==
    /\ up_fn[u] = "upload" /\ up_pc[u] = "set_frame"
    /\ current_frame' = request_data[u]
    /\ lock' = NoThread
    /\ up_pc' = [up_pc EXCEPT ![u] = "set_time"]
    /\ UNCHANGED <<now, frame_time, current_audio, audio_time, counters, audio_lock,
                   up_fn, request_data, up_resp, viewvars, stvars, history>>

\* line 324: current_frame = request.data
upload_set_frame(u) ==
    /\ up_fn[u] = "upload" /\ up_pc[u] = "set_frame"
    /\ current_frame' = request_data[u]
    /\ up_pc' = [up_pc EXCEPT ![u] = "set_time"]
    /\ UNCHANGED <<now, frame_time, current_audio, audio_time, counters, locks,
                   up_fn, request_data, up_resp, viewvars, stvars, history>>

\* line 325: frame_time = time.time(), and the end of the with block (release)
upload_set_time(u) ==
    /\ up_fn[u] = "upload" /\ up_pc[u] = "set_time"
    /\ frame_time' = now
    /\ lock' = NoThread
    /\ up_pc' = [up_pc EXCEPT ![u] = "return"]
    /\ written_video' = written_video \cup {<<request_data[u], now>>}
    /\ last_video' = <<request_data[u], now>>
    /\ UNCHANGED <<now, current_frame, current_audio, audio_time, counters, audio_lock,
                   up_fn, request_data, up_resp, viewvars, stvars,
                   written_audio, last_audio>>

\* lines 327-328: return "OK", 200; the request and its thread are over
upload_return(u) ==
    /\ up_fn[u] = "upload" /\ up_pc[u] = "return"
    /\ up_resp' = [up_resp EXCEPT ![u] = 200]
    /\ up_pc' = [up_pc EXCEPT ![u] = "done"]
    /\ up_fn' = [up_fn EXCEPT ![u] = "none"]
    /\ request_data' = [request_data EXCEPT ![u] = Empty]
    /\ UNCHANGED <<now, slots, counters, locks, viewvars, stvars, history>>

\* ------------------------------------------------- POST /upload-audio
\* lines 335-336
upload_audio(u) ==
    /\ up_pc[u] = "idle"
    /\ \E data \in Bodies :
        /\ request_data' = [request_data EXCEPT ![u] = data]
        /\ IF data = Empty
           THEN /\ up_resp' = [up_resp EXCEPT ![u] = 400]
                /\ up_pc' = [up_pc EXCEPT ![u] = "done"]
                /\ up_fn' = up_fn
           ELSE /\ up_resp' = up_resp
                /\ up_pc' = [up_pc EXCEPT ![u] = "lock"]
                /\ up_fn' = [up_fn EXCEPT ![u] = "upload_audio"]
    /\ UNCHANGED <<now, slots, counters, locks, viewvars, stvars, history>>

\* line 338: with audio_lock (acquire)
upload_audio_lock(u) ==
    /\ up_fn[u] = "upload_audio" /\ up_pc[u] = "lock"
    /\ audio_lock = NoThread
    /\ audio_lock' = UpThread(u)
    /\ up_pc' = [up_pc EXCEPT ![u] = "set_audio"]
    /\ UNCHANGED <<now, slots, counters, lock, up_fn, request_data, up_resp,
                   viewvars, stvars, history>>

\* line 339: current_audio = request.data
upload_audio_set_audio(u) ==
    /\ up_fn[u] = "upload_audio" /\ up_pc[u] = "set_audio"
    /\ current_audio' = request_data[u]
    /\ up_pc' = [up_pc EXCEPT ![u] = "set_time"]
    /\ UNCHANGED <<now, current_frame, frame_time, audio_time, counters, locks,
                   up_fn, request_data, up_resp, viewvars, stvars, history>>

\* upload_audio_set_time with the return inside a block that is never left:
\* the response is sent with audio_lock held
upload_audio_set_time_holding(u) ==
    /\ up_fn[u] = "upload_audio" /\ up_pc[u] = "set_time"
    /\ audio_time' = now
    /\ up_pc' = [up_pc EXCEPT ![u] = "return"]
    /\ written_audio' = written_audio \cup {<<request_data[u], now>>}
    /\ last_audio' = <<request_data[u], now>>
    /\ UNCHANGED <<now, current_frame, frame_time, current_audio, counters, locks,
                   up_fn, request_data, up_resp, viewvars, stvars,
                   written_video, last_video>>

\* line 340: audio_time = time.time(), and the end of the with block (release)
upload_audio_set_time(u) ==
    /\ up_fn[u] = "upload_audio" /\ up_pc[u] = "set_time"
    /\ audio_time' = now
    /\ audio_lock' = NoThread
    /\ up_pc' = [up_pc EXCEPT ![u] = "return"]
    /\ written_audio' = written_audio \cup {<<request_data[u], now>>}
    /\ last_audio' = <<request_data[u], now>>
    /\ UNCHANGED <<now, current_frame, frame_time, current_audio, counters, lock,
                   up_fn, request_data, up_resp, viewvars, stvars,
                   written_video, last_video>>

\* lines 342-343: return "OK", 200; the request and its thread are over
upload_audio_return(u) ==
    /\ up_fn[u] = "upload_audio" /\ up_pc[u] = "return"
    /\ up_resp' = [up_resp EXCEPT ![u] = 200]
    /\ up_pc' = [up_pc EXCEPT ![u] = "done"]
    /\ up_fn' = [up_fn EXCEPT ![u] = "none"]
    /\ request_data' = [request_data EXCEPT ![u] = Empty]
    /\ UNCHANGED <<now, slots, counters, locks, viewvars, stvars, history>>

\* ------------------------------------------------ GET /stream: gen_frames
\* The locals frame and last_frame_time are v_item and v_time; they are read
\* only by lines 358-360 and are reset when the generator leaves the yield,
\* where they are dead.

\* gen_frames_load behind an admission check against MAX_CLIENTS
gen_frames_load_limited(v) ==
    /\ v_pc[v] = "idle"
    /\ clients_count < MAX_CLIENTS
    /\ v_fn' = [v_fn EXCEPT ![v] = "gen_frames"]
    /\ v_reg' = [v_reg EXCEPT ![v] = clients_count]
    /\ v_pc' = [v_pc EXCEPT ![v] = "inc"]
    /\ UNCHANGED <<now, slots, counters, locks, upvars, v_item, v_time, v_out, v_decs,
                   stvars, history>>

\* lines 402-406 and 348: the generator starts; "clients_count += 1" loads
gen_frames_load(v) ==
    /\ v_pc[v] = "idle"
    /\ v_fn' = [v_fn EXCEPT ![v] = "gen_frames"]
    /\ v_reg' = [v_reg EXCEPT ![v] = clients_count]
    /\ v_pc' = [v_pc EXCEPT ![v] = "inc"]
    /\ UNCHANGED <<now, slots, counters, locks, upvars, v_item, v_time, v_out, v_decs,
                   stvars, history>>

\* line 348: "clients_count += 1" stores
gen_frames_store(v) ==
    /\ v_fn[v] = "gen_frames" /\ v_pc[v] = "inc"
    /\ clients_count' = v_reg[v] + 1
    /\ v_reg' = [v_reg EXCEPT ![v] = 0]
    /\ v_pc' = [v_pc EXCEPT ![v] = "loop"]
    /\ UNCHANGED <<now, slots, audio_clients_count, locks, upvars, v_fn, v_item, v_time,
                   v_out, v_decs, stvars, history>>

\* gen_frames_lock without the with block: the snapshot is read unlocked
gen_frames_lock_skipped(v) ==
    /\ v_fn[v] = "gen_frames" /\ v_pc[v] = "loop"
    /\ v_pc' = [v_pc EXCEPT ![v] = "read_frame"]
    /\ UNCHANGED <<now, slots, counters, locks, upvars, v_fn, v_reg, v_item, v_time,
                   v_out, v_decs, stvars, history>>

\* line 353: with lock (acquire)
gen_frames_lock(v) ==
    /\ v_fn[v] = "gen_frames" /\ v_pc[v] = "loop"
    /\ lock = NoThread
    /\ lock' = ViewThread(v)
    /\ v_pc' = [v_pc EXCEPT ![v] = "read_frame"]
    /\ UNCHANGED <<now, slots, counters, audio_lock, upvars, v_fn, v_reg, v_item, v_time,
                   v_out, v_decs, stvars, history>>

\* gen_frames_read_frame reading the other slot's payload
gen_frames_read_other_slot(v) ==
    /\ v_fn[v] = "gen_frames" /\ v_pc[v] = "read_frame"
    /\ v_item' = [v_item EXCEPT ![v] = current_audio]
    /\ v_pc' = [v_pc EXCEPT ![v] = "read_time"]
    /\ UNCHANGED <<now, slots, counters, locks, upvars, v_fn, v_reg, v_time,
                   v_out, v_decs, stvars, history>>

\* line 354: frame = current_frame
gen_frames_read_frame(v) ==
    /\ v_fn[v] = "gen_frames" /\ v_pc[v] = "read_frame"
    /\ v_item' = [v_item EXCEPT ![v] = current_frame]
    /\ v_pc' = [v_pc EXCEPT ![v] = "read_time"]
    /\ UNCHANGED <<now, slots, counters, locks, upvars, v_fn, v_reg, v_time,
                   v_out, v_decs, stvars, history>>

\* gen_frames_read_time with the yield inside the with block: the lock is kept
gen_frames_read_time_holding(v) ==
    /\ v_fn[v] = "gen_frames" /\ v_pc[v] = "read_time"
    /\ v_time' = [v_time EXCEPT ![v] = frame_time]
    /\ v_pc' = [v_pc EXCEPT ![v] = "check"]
    /\ UNCHANGED <<now, slots, counters, locks, upvars, v_fn, v_reg, v_item,
                   v_out, v_decs, stvars, history>>

\* line 355: last_frame_time = frame_time, and the end of the with block
gen_frames_read_time(v) ==
    /\ v_fn[v] = "gen_frames" /\ v_pc[v] = "read_time"
    /\ v_time' = [v_time EXCEPT ![v] = frame_time]
    /\ lock' = NoThread
    /\ v_pc' = [v_pc EXCEPT ![v] = "check"]
    /\ UNCHANGED <<now, slots, counters, audio_lock, upvars, v_fn, v_reg, v_item,
                   v_out, v_decs, stvars, history>>

\* the test of line 358 with <= for <
frame_is_fresh_inclusive(frame, last_frame_time, t) ==
    frame # None /\ t - last_frame_time <= FRAME_EXPIRY_SECONDS

\* the test of line 358
frame_is_fresh(frame, last_frame_time, t) ==
    frame # None /\ t - last_frame_time < FRAME_EXPIRY_SECONDS

\* gen_frames_yield with an expiry that clears the slot: a snapshot found
\* stale resets current_frame to None
gen_frames_yield_expires(v) ==
    /\ v_fn[v] = "gen_frames" /\ v_pc[v] = "check"
    /\ v_out' = [v_out EXCEPT ![v] =
                    IF frame_is_fresh(v_item[v], v_time[v], now)
                    THEN Frame(v_item[v]) ELSE Frame(Empty)]
    /\ current_frame' = IF frame_is_fresh(v_item[v], v_time[v], now)
                        THEN current_frame ELSE None
    /\ v_pc' = [v_pc EXCEPT ![v] = "yield"]
    /\ UNCHANGED <<now, frame_time, current_audio, audio_time, counters, locks, upvars,
                   v_fn, v_reg, v_item, v_time, v_decs, stvars, history>>

\* lines 358-364: the generator suspends at one of the two yields
gen_frames_yield(v) ==
    /\ v_fn[v] = "gen_frames" /\ v_pc[v] = "check"
    /\ v_out' = [v_out EXCEPT ![v] =
                    IF frame_is_fresh(v_item[v], v_time[v], now)
                    THEN Frame(v_item[v]) ELSE Frame(Empty)]
    /\ v_pc' = [v_pc EXCEPT ![v] = "yield"]
    /\ UNCHANGED <<now, slots, counters, locks, upvars, v_fn, v_reg, v_item, v_time,
                   v_decs, stvars, history>>

\* the transport has written the unit and asks for the next one: line 367 sleeps
gen_frames_resume(v) ==
    /\ v_fn[v] = "gen_frames" /\ v_pc[v] = "yield"
    /\ v_out' = [v_out EXCEPT ![v] = NoUnit]
    /\ v_item' = [v_item EXCEPT ![v] = None]
    /\ v_time' = [v_time EXCEPT ![v] = 0]
    /\ v_pc' = [v_pc EXCEPT ![v] = "sleep"]
    /\ UNCHANGED <<now, slots, counters, locks, upvars, v_fn, v_reg, v_decs,
                   stvars, history>>

\* gen_frames_wake in a loop that returns after one iteration: control leaves
\* the while and goes to line 369
gen_frames_wake_returns(v) ==
    /\ v_fn[v] = "gen_frames" /\ v_pc[v] = "sleep"
    /\ v_pc' = [v_pc EXCEPT ![v] = "finally"]
    /\ UNCHANGED <<now, slots, counters, locks, upvars, v_fn, v_reg, v_item, v_time,
                   v_out, v_decs, stvars, history>>

\* line 367: time.sleep(0.05) returns, back to the head of the loop
gen_frames_wake(v) ==
    /\ v_fn[v] = "gen_frames" /\ v_pc[v] = "sleep"
    /\ v_pc' = [v_pc EXCEPT ![v] = "loop"]
    /\ UNCHANGED <<now, slots, counters, locks, upvars, v_fn, v_reg, v_item, v_time,
                   v_out, v_decs, stvars, history>>

\* the client is gone: the write failed and the server closes the generator,
\* which raises GeneratorExit at the yield; control goes to line 369
gen_frames_close(v) ==
    /\ v_fn[v] = "gen_frames" /\ v_pc[v] = "yield"
    /\ v_out' = [v_out EXCEPT ![v] = NoUnit]
    /\ v_item' = [v_item EXCEPT ![v] = None]
    /\ v_time' = [v_time EXCEPT ![v] = 0]
    /\ v_pc' = [v_pc EXCEPT ![v] = "finally"]
    /\ UNCHANGED <<now, slots, counters, locks, upvars, v_fn, v_reg, v_decs,
                   stvars, history>>

\* gen_frames_error without the finally block: the exception ends the generator
gen_frames_error_uncaught(v) ==
    /\ v_fn[v] = "gen_frames" /\ v_pc[v] \in {"check", "sleep"}
    /\ v_item' = [v_item EXCEPT ![v] = None]
    /\ v_time' = [v_time EXCEPT ![v] = 0]
    /\ v_pc' = [v_pc EXCEPT ![v] = "ended"]
    /\ UNCHANGED <<now, slots, counters, locks, upvars, v_fn, v_reg, v_out, v_decs,
                   stvars, history>>

\* an exception inside the try block (building the unit, or in the sleep):
\* control goes to line 369
gen_frames_error(v) ==
    /\ v_fn[v] = "gen_frames" /\ v_pc[v] \in {"check", "sleep"}
    /\ v_item' = [v_item EXCEPT ![v] = None]
    /\ v_time' = [v_time EXCEPT ![v] = 0]
    /\ v_pc' = [v_pc EXCEPT ![v] = "finally"]
    /\ UNCHANGED <<now, slots, counters, locks, upvars, v_fn, v_reg, v_out, v_decs,
                   stvars, history>>

\* line 370: with lock (acquire)
gen_frames_finally(v) ==
    /\ v_fn[v] = "gen_frames" /\ v_pc[v] = "finally"
    /\ lock = NoThread
    /\ lock' = ViewThread(v)
    /\ v_pc' = [v_pc EXCEPT ![v] = "dec_load"]
    /\ UNCHANGED <<now, slots, counters, audio_lock, upvars, v_fn, v_reg, v_item, v_time,
                   v_out, v_decs, stvars, history>>

\* line 371: "clients_count -= 1" loads
gen_frames_dec_load(v) ==
    /\ v_fn[v] = "gen_frames" /\ v_pc[v] = "dec_load"
    /\ v_reg' = [v_reg EXCEPT ![v] = clients_count]
    /\ v_pc' = [v_pc EXCEPT ![v] = "dec_store"]
    /\ UNCHANGED <<now, slots, counters, locks, upvars, v_fn, v_item, v_time,
                   v_out, v_decs, stvars, history>>

\* gen_frames_dec_store without the end of the with block: the session ends
\* with lock held
gen_frames_dec_store_holding(v) ==
    /\ v_fn[v] = "gen_frames" /\ v_pc[v] = "dec_store"
    /\ clients_count' = v_reg[v] - 1
    /\ v_reg' = [v_reg EXCEPT ![v] = 0]
    /\ v_decs' = [v_decs EXCEPT ![v] = @ + 1]
    /\ v_pc' = [v_pc EXCEPT ![v] = "ended"]
    /\ UNCHANGED <<now, slots, audio_clients_count, locks, upvars, v_fn, v_item,
                   v_time, v_out, stvars, history>>

\* line 371: "clients_count -= 1" stores, and the end of the with block
gen_frames_dec_store(v) ==
    /\ v_fn[v] = "gen_frames" /\ v_pc[v] = "dec_store"
    /\ clients_count' = v_reg[v] - 1
    /\ v_reg' = [v_reg EXCEPT ![v] = 0]
    /\ v_decs' = [v_decs EXCEPT ![v] = @ + 1]
    /\ lock' = NoThread
    /\ v_pc' = [v_pc EXCEPT ![v] = "ended"]
    /\ UNCHANGED <<now, slots, audio_clients_count, audio_lock, upvars, v_fn, v_item,
                   v_time, v_out, stvars, history>>

\* ------------------------------------------------ GET /audio-stream: gen_audio
\* The locals audio and last_audio_time are v_item and v_time, as in gen_frames.

\* lines 409-412 and 377: the generator starts; "audio_clients_count += 1" loads
gen_audio_load(v) ==
    /\ v_pc[v] = "idle"
    /\ v_fn' = [v_fn EXCEPT ![v] = "gen_audio"]
    /\ v_reg' = [v_reg EXCEPT ![v] = audio_clients_count]
    /\ v_pc' = [v_pc EXCEPT ![v] = "inc"]
    /\ UNCHANGED <<now, slots, counters, locks, upvars, v_item, v_time, v_out, v_decs,
                   stvars, history>>

\* line 377: "audio_clients_count += 1" stores
gen_audio_store(v) ==
    /\ v_fn[v] = "gen_audio" /\ v_pc[v] = "inc"
    /\ audio_clients_count' = v_reg[v] + 1
    /\ v_reg' = [v_reg EXCEPT ![v] = 0]
    /\ v_pc' = [v_pc EXCEPT ![v] = "loop"]
    /\ UNCHANGED <<now, slots, clients_count, locks, upvars, v_fn, v_item, v_time,
                   v_out, v_decs, stvars, history>>

\* line 382: with audio_lock (acquire)
gen_audio_lock(v) ==
    /\ v_fn[v] = "gen_audio" /\ v_pc[v] = "loop"
    /\ audio_lock = NoThread
    /\ audio_lock' = ViewThread(v)
    /\ v_pc' = [v_pc EXCEPT ![v] = "read_audio"]
    /\ UNCHANGED <<now, slots, counters, lock, upvars, v_fn, v_reg, v_item, v_time,
                   v_out, v_decs, stvars, history>>

\* line 383: audio = current_audio
gen_audio_read_audio(v) ==
    /\ v_fn[v] = "gen_audio" /\ v_pc[v] = "read_audio"
    /\ v_item' = [v_item EXCEPT ![v] = current_audio]
    /\ v_pc' = [v_pc EXCEPT ![v] = "read_time"]
    /\ UNCHANGED <<now, slots, counters, locks, upvars, v_fn, v_reg, v_time,
                   v_out, v_decs, stvars, history>>

\* line 384: last_audio_time = audio_time, and the end of the with block
gen_audio_read_time(v) ==
    /\ v_fn[v] = "gen_audio" /\ v_pc[v] = "read_time"
    /\ v_time' = [v_time EXCEPT ![v] = audio_time]
    /\ audio_lock' = NoThread
    /\ v_pc' = [v_pc EXCEPT ![v] = "check"]
    /\ UNCHANGED <<now, slots, counters, lock, upvars, v_fn, v_reg, v_item,
                   v_out, v_decs, stvars, history>>

\* the test of line 387 without "audio is not None"
audio_is_fresh_unguarded(audio, last_audio_time, t) ==
    t - last_audio_time < AUDIO_EXPIRY_SECONDS

\* the test of line 387
audio_is_fresh(audio, last_audio_time, t) ==
    audio # None /\ t - last_audio_time < AUDIO_EXPIRY_SECONDS

\* lines 387-392: the generator suspends at one of the two yields
gen_audio_yield(v) ==
    /\ v_fn[v] = "gen_audio" /\ v_pc[v] = "check"
    /\ v_out' = [v_out EXCEPT ![v] =
                    IF audio_is_fresh(v_item[v], v_time[v], now)
                    THEN AudioEvent(v_item[v]) ELSE Heartbeat(now)]
    /\ v_pc' = [v_pc EXCEPT ![v] = "yield"]
    /\ UNCHANGED <<now, slots, counters, locks, upvars, v_fn, v_reg, v_item, v_time,
                   v_decs, stvars, history>>

\* the transport has written the unit and asks for the next one: line 395 sleeps
gen_audio_resume(v) ==
    /\ v_fn[v] = "gen_audio" /\ v_pc[v] = "yield"
    /\ v_out' = [v_out EXCEPT ![v] = NoUnit]
    /\ v_item' = [v_item EXCEPT ![v] = None]
    /\ v_time' = [v_time EXCEPT ![v] = 0]
    /\ v_pc' = [v_pc EXCEPT ![v] = "sleep"]
    /\ UNCHANGED <<now, slots, counters, locks, upvars, v_fn, v_reg, v_decs,
                   stvars, history>>

\* line 395: time.sleep(0.1) returns, back to the head of the loop
gen_audio_wake(v) ==
    /\ v_fn[v] = "gen_audio" /\ v_pc[v] = "sleep"
    /\ v_pc' = [v_pc EXCEPT ![v] = "loop"]
    /\ UNCHANGED <<now, slots, counters, locks, upvars, v_fn, v_reg, v_item, v_time,
                   v_out, v_decs, stvars, history>>

\* the client is gone: the write failed and the server closes the generator,
\* which raises GeneratorExit at the yield; control goes to line 397
gen_audio_close(v) ==
    /\ v_fn[v] = "gen_audio" /\ v_pc[v] = "yield"
    /\ v_out' = [v_out EXCEPT ![v] = NoUnit]
    /\ v_item' = [v_item EXCEPT ![v] = None]
    /\ v_time' = [v_time EXCEPT ![v] = 0]
    /\ v_pc' = [v_pc EXCEPT ![v] = "finally"]
    /\ UNCHANGED <<now, slots, counters, locks, upvars, v_fn, v_reg, v_decs,
                   stvars, history>>

\* an exception inside the try block (building the unit, or in the sleep):
\* control goes to line 397
gen_audio_error(v) ==
    /\ v_fn[v] = "gen_audio" /\ v_pc[v] \in {"check", "sleep"}
    /\ v_item' = [v_item EXCEPT ![v] = None]
    /\ v_time' = [v_time EXCEPT ![v] = 0]
    /\ v_pc' = [v_pc EXCEPT ![v] = "finally"]
    /\ UNCHANGED <<now, slots, counters, locks, upvars, v_fn, v_reg, v_out, v_decs,
                   stvars, history>>

\* line 398: with audio_lock (acquire)
gen_audio_finally(v) ==
    /\ v_fn[v] = "gen_audio" /\ v_pc[v] = "finally"
    /\ audio_lock = NoThread
    /\ audio_lock' = ViewThread(v)
    /\ v_pc' = [v_pc EXCEPT ![v] = "dec_load"]
    /\ UNCHANGED <<now, slots, counters, lock, upvars, v_fn, v_reg, v_item, v_time,
                   v_out, v_decs, stvars, history>>

\* line 399: "audio_clients_count -= 1" loads
gen_audio_dec_load(v) ==
    /\ v_fn[v] = "gen_audio" /\ v_pc[v] = "dec_load"
    /\ v_reg' = [v_reg EXCEPT ![v] = audio_clients_count]
    /\ v_pc' = [v_pc EXCEPT ![v] = "dec_store"]
    /\ UNCHANGED <<now, slots, counters, locks, upvars, v_fn, v_item, v_time,
                   v_out, v_decs, stvars, history>>

\* line 399: "audio_clients_count -= 1" stores, and the end of the with block
gen_audio_dec_store(v) ==
    /\ v_fn[v] = "gen_audio" /\ v_pc[v] = "dec_store"
    /\ audio_clients_count' = v_reg[v] - 1
    /\ v_reg' = [v_reg EXCEPT ![v] = 0]
    /\ v_decs' = [v_decs EXCEPT ![v] = @ + 1]
    /\ audio_lock' = NoThread
    /\ v_pc' = [v_pc EXCEPT ![v] = "ended"]
    /\ UNCHANGED <<now, slots, clients_count, lock, upvars, v_fn, v_item,
                   v_time, v_out, stvars, history>>

\* ---------------------------------------------------------- GET /status
\* strftime('%H:%M:%S') of a timestamp, and the texts used in its place
strftime(t) == <<"%H:%M:%S", t>>
Never == <<"Never", 0>>
NoText == <<"none", 0>>

\* lines 421-426
status_text_of(has_frame, frame_age) ==
    IF ~has_frame THEN "No frames received yet"
    ELSE IF frame_age > FRAME_EXPIRY_SECONDS THEN "Camera offline"
    ELSE "Online"

\* lines 434-439
audio_status_of(has_audio, audio_age) ==
    IF ~has_audio THEN "No audio received yet"
    ELSE IF audio_age > AUDIO_EXPIRY_SECONDS THEN "Microphone offline"
    ELSE "Receiving audio"

\* lines 414-415: the request arrives and the handler starts
status(t) ==
    /\ st_pc[t] = "idle"
    /\ st_pc' = [st_pc EXCEPT ![t] = "lock"]
    /\ UNCHANGED <<now, slots, counters, locks, upvars, viewvars,
                   st_text, st_age, st_last, st_audio_text, st_audio_age, st_resp, history>>

\* status_lock entering while another thread is inside the with block
status_lock_shared(t) ==
    /\ st_pc[t] = "lock"
    /\ lock' = StatusThread(t)
    /\ st_pc' = [st_pc EXCEPT ![t] = "frame"]
    /\ UNCHANGED <<now, slots, counters, audio_lock, upvars, viewvars,
                   st_text, st_age, st_last, st_audio_text, st_audio_age, st_resp, history>>

\* line 417: with lock (acquire)
status_lock(t) ==
    /\ st_pc[t] = "lock"
    /\ lock = NoThread
    /\ lock' = StatusThread(t)
    /\ st_pc' = [st_pc EXCEPT ![t] = "frame"]
    /\ UNCHANGED <<now, slots, counters, audio_lock, upvars, viewvars,
                   st_text, st_age, st_last, st_audio_text, st_audio_age, st_resp, history>>

\* status_frame with the audio block nested in the video block: lock stays held
status_frame_holding(t) ==
    /\ st_pc[t] = "frame"
    /\ LET has_frame == current_frame # None
           frame_age == IF has_frame THEN now - frame_time ELSE Inf
       IN /\ st_text' = [st_text EXCEPT ![t] = status_text_of(has_frame, frame_age)]
          /\ st_age' = [st_age EXCEPT ![t] = frame_age]
          /\ st_last' = [st_last EXCEPT ![t] =
                            IF has_frame THEN strftime(frame_time) ELSE Never]
    /\ st_pc' = [st_pc EXCEPT ![t] = "audio_lock"]
    /\ UNCHANGED <<now, slots, counters, locks, upvars, viewvars,
                   st_audio_text, st_audio_age, st_resp, history>>

\* lines 418-428, and the end of the with block
status_frame(t) ==
    /\ st_pc[t] = "frame"
    /\ LET has_frame == current_frame # None
           frame_age == IF has_frame THEN now - frame_time ELSE Inf
       IN /\ st_text' = [st_text EXCEPT ![t] = status_text_of(has_frame, frame_age)]
          /\ st_age' = [st_age EXCEPT ![t] = frame_age]
          /\ st_last' = [st_last EXCEPT ![t] =
                            IF has_frame THEN strftime(frame_time) ELSE Never]
    /\ lock' = NoThread
    /\ st_pc' = [st_pc EXCEPT ![t] = "audio_lock"]
    /\ UNCHANGED <<now, slots, counters, audio_lock, upvars, viewvars,
                   st_audio_text, st_audio_age, st_resp, history>>

\* line 430: with audio_lock (acquire)
status_audio_lock(t) ==
    /\ st_pc[t] = "audio_lock"
    /\ audio_lock = NoThread
    /\ audio_lock' = StatusThread(t)
    /\ st_pc' = [st_pc EXCEPT ![t] = "audio"]
    /\ UNCHANGED <<now, slots, counters, lock, upvars, viewvars,
                   st_text, st_age, st_last, st_audio_text, st_audio_age, st_resp, history>>

\* status_audio without the end of the with block: audio_lock stays held
status_audio_holding(t) ==
    /\ st_pc[t] = "audio"
    /\ LET has_audio == current_audio # None
           audio_age == IF has_audio THEN now - audio_time ELSE Inf
       IN /\ st_audio_text' = [st_audio_text EXCEPT ![t] =
                                  audio_status_of(has_audio, audio_age)]
          /\ st_audio_age' = [st_audio_age EXCEPT ![t] = audio_age]
    /\ st_pc' = [st_pc EXCEPT ![t] = "return"]
    /\ UNCHANGED <<now, slots, counters, locks, upvars, viewvars,
                   st_text, st_age, st_last, st_resp, history>>

\* lines 431-439, and the end of the with block
status_audio(t) ==
    /\ st_pc[t] = "audio"
    /\ LET has_audio == current_audio # None
           audio_age == IF has_audio THEN now - audio_time ELSE Inf
       IN /\ st_audio_text' = [st_audio_text EXCEPT ![t] =
                                  audio_status_of(has_audio, audio_age)]
          /\ st_audio_age' = [st_audio_age EXCEPT ![t] = audio_age]
    /\ audio_lock' = NoThread
    /\ st_pc' = [st_pc EXCEPT ![t] = "return"]
    /\ UNCHANGED <<now, slots, counters, lock, upvars, viewvars,
                   st_text, st_age, st_last, st_resp, history>>

\* lines 441-447: the response is built from the locals and the two counters;
\* the request and its locals are over
status_return(t) ==
    /\ st_pc[t] = "return"
    /\ st_resp' = [st_resp EXCEPT ![t] =
                      [status |-> st_text[t],
                       clients |-> clients_count,
                       audio_clients |-> audio_clients_count,
                       last_frame |-> st_last[t],
                       audio_status |-> st_audio_text[t]]]
    /\ st_text' = [st_text EXCEPT ![t] = "none"]
    /\ st_age' = [st_age EXCEPT ![t] = Inf]
    /\ st_last' = [st_last EXCEPT ![t] = NoText]
    /\ st_audio_text' = [st_audio_text EXCEPT ![t] = "none"]
    /\ st_audio_age' = [st_audio_age EXCEPT ![t] = Inf]
    /\ st_pc' = [st_pc EXCEPT ![t] = "done"]
    /\ UNCHANGED <<now, slots, counters, locks, upvars, viewvars, history>>

\* ------------------------------------------------------------ the threads
UploadStep(u) ==
    \/ upload(u) \/ upload_lock(u) \/ upload_set_frame(u)
    \/ upload_set_time(u) \/ upload_return(u)
    \/ upload_audio(u) \/ upload_audio_lock(u) \/ upload_audio_set_audio(u)
    \/ upload_audio_set_time(u) \/ upload_audio_return(u)

FramesStep(v) ==
    \/ gen_frames_load(v) \/ gen_frames_store(v) \/ gen_frames_lock(v)
    \/ gen_frames_read_frame(v) \/ gen_frames_read_time(v) \/ gen_frames_yield(v)
    \/ gen_frames_resume(v) \/ gen_frames_wake(v) \/ gen_frames_close(v)
    \/ gen_frames_error(v) \/ gen_frames_finally(v) \/ gen_frames_dec_load(v)
    \/ gen_frames_dec_store(v)

AudioStep(v) ==
    \/ gen_audio_load(v) \/ gen_audio_store(v) \/ gen_audio_lock(v)
    \/ gen_audio_read_audio(v) \/ gen_audio_read_time(v) \/ gen_audio_yield(v)
    \/ gen_audio_resume(v) \/ gen_audio_wake(v) \/ gen_audio_close(v)
    \/ gen_audio_error(v) \/ gen_audio_finally(v) \/ gen_audio_dec_load(v)
    \/ gen_audio_dec_store(v)

StatusStep(t) ==
    \/ status(t) \/ status_lock(t) \/ status_frame(t) \/ status_audio_lock(t)
    \/ status_audio(t) \/ status_return(t)

\* Uploads racing with one viewer and the status requests
Next ==
    \/ Tick(MaxTime)
    \/ \E u \in Uploaders : UploadStep(u)
    \/ \E v \in {1} : FramesStep(v) \/ AudioStep(v)
    \/ \E t \in StatusReqs : StatusStep(t)

Spec == Init /\ [][Next]_vars

\* Viewer sessions racing with each other and with the uploads
NextFanout ==
    \/ Tick(MaxTime)
    \/ \E u \in Uploaders : UploadStep(u)
    \/ \E v \in Viewers : FramesStep(v) \/ AudioStep(v)

SpecFanout == Init /\ [][NextFanout]_vars

\* One thread of each kind, over a time long enough for both slots to expire
NextAge ==
    \/ Tick(MaxAge)
    \/ \E u \in {1} : UploadStep(u)
    \/ \E v \in {1} : FramesStep(v) \/ AudioStep(v)
    \/ \E t \in {1} : StatusStep(t)

SpecAge == Init /\ [][NextAge]_vars

\* A viewer whose client stops reading: session 1 may stay at its yield or in
\* its sleep for ever, every other thread is scheduled fairly.  A thread
\* blocked on a lock is woken when the lock is released, so the acquisitions
\* are strongly fair; no fairness is assumed of what the clients do (a request
\* arriving, a unit being read, a disconnect) for session 1, and of arrivals,
\* disconnects and errors for the others.  The clock stands still here.
Slow == CHOOSE v \in Viewers : \A w \in Viewers : v <= w

NextLive ==
    \/ \E u \in {1} : UploadStep(u)
    \/ \E v \in Viewers : FramesStep(v) \/ AudioStep(v)
    \/ \E t \in {1} : StatusStep(t)

UploadRun(u) ==
    \/ upload_set_frame(u) \/ upload_set_time(u) \/ upload_return(u)
    \/ upload_audio_set_audio(u) \/ upload_audio_set_time(u) \/ upload_audio_return(u)

UploadAcquire(u) == upload_lock(u) \/ upload_audio_lock(u)

StatusRun(t) == status_frame(t) \/ status_audio(t) \/ status_return(t)

StatusAcquire(t) == status_lock(t) \/ status_audio_lock(t)

ViewerRun(v) ==
    \/ gen_frames_store(v) \/ gen_frames_read_frame(v) \/ gen_frames_read_time(v)
    \/ gen_frames_yield(v) \/ gen_frames_dec_load(v) \/ gen_frames_dec_store(v)
    \/ gen_audio_store(v) \/ gen_audio_read_audio(v) \/ gen_audio_read_time(v)
    \/ gen_audio_yield(v) \/ gen_audio_dec_load(v) \/ gen_audio_dec_store(v)

ViewerAcquire(v) ==
    \/ gen_frames_lock(v) \/ gen_frames_finally(v)
    \/ gen_audio_lock(v) \/ gen_audio_finally(v)

ViewerPaced(v) ==
    \/ gen_frames_resume(v) \/ gen_frames_wake(v)
    \/ gen_audio_resume(v) \/ gen_audio_wake(v)

Fairness ==
    /\ \A u \in {1} : WF_vars(UploadRun(u)) /\ SF_vars(UploadAcquire(u))
    /\ \A t \in {1} : WF_vars(StatusRun(t)) /\ SF_vars(StatusAcquire(t))
    /\ \A v \in Viewers : WF_vars(ViewerRun(v)) /\ SF_vars(ViewerAcquire(v))
    /\ \A v \in Viewers \ {Slow} : WF_vars(ViewerPaced(v))

SpecLive == Init /\ [][NextLive]_vars /\ Fairness

\* ---------------------------------------------------------- a full house
\* MAX_CLIENTS - 1 video sessions and as many audio sessions whose clients
\* connected one after the other while nothing had been uploaded and then
\* stopped reading: each is suspended at its first yield (line 363 or 392).
\* Four more clients connect.
ParkedVideo == 1..(MAX_CLIENTS - 1)
ParkedAudio == MAX_CLIENTS..(2 * MAX_CLIENTS - 2)
Newcomers == (2 * MAX_CLIENTS - 1)..(2 * MAX_CLIENTS + 2)
Crowd == ParkedVideo \cup ParkedAudio \cup Newcomers

InitCrowd ==
    /\ now = 0
    /\ current_frame = None /\ frame_time = 0
    /\ current_audio = None /\ audio_time = 0
    /\ clients_count = Cardinality(ParkedVideo)
    /\ audio_clients_count = Cardinality(ParkedAudio)
    /\ lock = NoThread /\ audio_lock = NoThread
    /\ up_fn = [u \in Uploaders |-> "none"]
    /\ up_pc = [u \in Uploaders |-> "idle"]
    /\ request_data = [u \in Uploaders |-> Empty]
    /\ up_resp = [u \in Uploaders |-> 0]
    /\ v_fn = [v \in Crowd |-> IF v \in ParkedVideo THEN "gen_frames"
                               ELSE IF v \in ParkedAudio THEN "gen_audio" ELSE "none"]
    /\ v_pc = [v \in Crowd |-> IF v \in Newcomers THEN "idle" ELSE "yield"]
    /\ v_reg = [v \in Crowd |-> 0]
    /\ v_item = [v \in Crowd |-> None]
    /\ v_time = [v \in Crowd |-> 0]
    /\ v_out = [v \in Crowd |-> IF v \in ParkedVideo THEN Frame(Empty)
                                ELSE IF v \in ParkedAudio THEN Heartbeat(0) ELSE NoUnit]
    /\ v_decs = [v \in Crowd |-> 0]
    /\ st_pc = [t \in StatusReqs |-> "idle"]
    /\ st_text = [t \in StatusReqs |-> "none"]
    /\ st_age = [t \in StatusReqs |-> Inf]
    /\ st_last = [t \in StatusReqs |-> <<"none", 0>>]
    /\ st_audio_text = [t \in StatusReqs |-> "none"]
    /\ st_audio_age = [t \in StatusReqs |-> Inf]
    /\ st_resp = [t \in StatusReqs |-> NoResponse]
    /\ written_video = {} /\ written_audio = {}
    /\ last_video = <<None, 0>> /\ last_audio = <<None, 0>>

NextCrowd == \E v \in Newcomers : FramesStep(v) \/ AudioStep(v)

SpecCrowd == InitCrowd /\ [][NextCrowd]_vars

\* ============================================================ properties

StoredVideo == {pr[1] : pr \in written_video}
StoredAudio == {pr[1] : pr \in written_audio}
Unset == <<None, 0>>

\* C1: a snapshot read of a slot observes the payload of the last upload to that
\* slot that has completed (left its critical section): a viewer that has just
\* read the payload, and a status request about to read it, see exactly that one.
C1_LastWriteWins ==
    /\ \A v \in Viewers :
        v_pc[v] = "read_time" =>
            v_item[v] = (IF v_fn[v] = "gen_frames" THEN last_video[1] ELSE last_audio[1])
    /\ \A t \in StatusReqs :
        /\ st_pc[t] = "frame" => <<current_frame, frame_time>> = last_video
        /\ st_pc[t] = "audio" => <<current_audio, audio_time>> = last_audio

\* a viewer reads p2 after an upload of p1 and then one of p2 completed
C1_Witness ==
    \E v \in Viewers :
        /\ v_fn[v] = "gen_frames" /\ v_pc[v] = "read_time"
        /\ v_item[v] = "p2" /\ last_video[1] = "p2"
        /\ "p1" \in StoredVideo

\* C2: every (payload, timestamp) pair a viewer has snapshotted, and every pair
\* a status request is reading, was written together by one upload, or is the
\* initial pair.
C2_NoTornReads ==
    /\ \A v \in Viewers :
        v_pc[v] \in {"check", "yield"} =>
            <<v_item[v], v_time[v]>> \in
                (IF v_fn[v] = "gen_frames" THEN written_video ELSE written_audio)
                    \cup {Unset}
    /\ \A t \in StatusReqs :
        /\ st_pc[t] = "frame" => <<current_frame, frame_time>> \in written_video \cup {Unset}
        /\ st_pc[t] = "audio" => <<current_audio, audio_time>> \in written_audio \cup {Unset}

\* a viewer holds the pair of one of two uploads to the video slot that wrote
\* different payloads at different times
C2_Witness ==
    \E v \in Viewers :
        /\ v_fn[v] = "gen_frames" /\ v_pc[v] = "check"
        /\ <<v_item[v], v_time[v]>> \in written_video
        /\ \E a \in written_video, b \in written_video : a[1] # b[1] /\ a[2] # b[2]

\* C3: an upload with an empty body is answered 400 and changes neither slot
\* and neither counter; an empty body never reaches the store, so no slot ever
\* holds one.
C3_EmptyStep ==
    \A u \in Uploaders :
        (up_pc[u] = "idle" /\ request_data'[u] = Empty /\ up_pc'[u] # "idle") =>
            /\ up_resp'[u] = 400 /\ up_pc'[u] = "done"
            /\ UNCHANGED <<slots, counters, locks>>

C3_EmptyState ==
    /\ \A u \in Uploaders :
        /\ up_pc[u] \in {"lock", "set_frame", "set_audio", "set_time"} =>
              request_data[u] # Empty
        /\ up_resp[u] = 400 => up_pc[u] = "done"
    /\ current_frame # Empty /\ current_audio # Empty

C3_EmptyUploadRejected == []C3_EmptyState /\ [][C3_EmptyStep]_vars

\* an empty upload was answered 400 while the video slot held a stored frame
C3_Witness ==
    \E u \in Uploaders :
        /\ up_resp[u] = 400
        /\ current_frame \in Payloads /\ last_video[1] = current_frame

\* C4: at each yield, with K the time of the test minus the snapshotted
\* timestamp, gen_frames hands out the stored payload iff there is one and
\* K < 10, else the empty frame; gen_audio hands out the audio event iff there
\* is a payload and K < 5, else a heartbeat.
C4_YieldStep ==
    \A v \in Viewers :
        (v_pc[v] = "check" /\ v_pc'[v] = "yield") =>
            LET K == now - v_time[v]
                present == v_item[v] \in Payloads
            IN  /\ v_fn[v] = "gen_frames" =>
                    /\ (present /\ K < 10) <=> v_out'[v] = Frame(v_item[v])
                    /\ ~(present /\ K < 10) <=> v_out'[v] = Frame(Empty)
                /\ v_fn[v] = "gen_audio" =>
                    /\ (present /\ K < 5) <=> v_out'[v] = AudioEvent(v_item[v])
                    /\ ~(present /\ K < 5) <=> v_out'[v].kind = "heartbeat"

C4_StreamFreshness == [][C4_YieldStep]_vars

\* a frame snapshotted exactly 10 seconds after its upload went out empty
C4_Witness ==
    \E v \in Viewers :
        /\ v_fn[v] = "gen_frames" /\ v_pc[v] = "yield"
        /\ v_item[v] \in Payloads /\ now - v_time[v] = 10
        /\ v_out[v] = Frame(Empty)

\* C5: a session that has ended has decremented its counter exactly once, and a
\* session that has not ended has not decremented it.
C5_OneDecrement ==
    \A v \in Viewers :
        /\ v_pc[v] = "ended" => v_decs[v] = 1
        /\ v_pc[v] # "ended" => v_decs[v] = 0

\* every session has run and ended
C5_Witness ==
    \A v \in Viewers : v_pc[v] = "ended" /\ v_decs[v] = 1

\* C6: when no session is between the load and the store of its increment or
\* decrement, each counter is the number of its sessions that have started and
\* not ended.
MidUpdate(v) == v_pc[v] \in {"inc", "dec_store"}
Active(fn) == {v \in Viewers : v_fn[v] = fn /\ v_pc[v] \notin {"idle", "inc", "ended"}}
C6_CountersExact ==
    (\A v \in Viewers : ~MidUpdate(v)) =>
        /\ clients_count = Cardinality(Active("gen_frames"))
        /\ audio_clients_count = Cardinality(Active("gen_audio"))

\* C7: the status text agrees with what a stream loop would hand out for the
\* same pair at the same time: online iff the payload, offline iff the empty
\* unit for a present payload.
C7_StatusAgreesWithStream ==
    \A t \in StatusReqs :
        /\ st_text[t] # "none" =>
            LET has == st_age[t] # Inf
                emits == has /\ frame_is_fresh("p1", 0, st_age[t])
            IN  /\ st_text[t] = "Online" <=> emits
                /\ st_text[t] = "Camera offline" <=> (has /\ ~emits)
        /\ st_audio_text[t] # "none" =>
            LET has == st_audio_age[t] # Inf
                emits == has /\ audio_is_fresh("p1", 0, st_audio_age[t])
            IN  /\ st_audio_text[t] = "Receiving audio" <=> emits
                /\ st_audio_text[t] = "Microphone offline" <=> (has /\ ~emits)

\* C8: while no upload to a slot has completed, status reports that slot as
\* never received and every unit of its viewers is a heartbeat (audio) or an
\* empty frame (video).
C8_NeverSet ==
    /\ written_audio = {} =>
        /\ \A t \in StatusReqs :
            /\ st_audio_text[t] \in {"none", "No audio received yet"}
            /\ st_resp[t] # NoResponse => st_resp[t].audio_status = "No audio received yet"
        /\ \A v \in Viewers :
            (v_fn[v] = "gen_audio" /\ v_pc[v] = "yield") => v_out[v].kind = "heartbeat"
    /\ written_video = {} =>
        /\ \A t \in StatusReqs :
            /\ st_text[t] \in {"none", "No frames received yet"}
            /\ st_resp[t] # NoResponse => st_resp[t].status = "No frames received yet"
        /\ \A v \in Viewers :
            (v_fn[v] = "gen_frames" /\ v_pc[v] = "yield") => v_out[v] = Frame(Empty)

\* long after a video upload and an empty audio upload, with no audio stored,
\* status has answered and an audio viewer is at a heartbeat
C8_Witness ==
    /\ written_audio = {} /\ written_video # {} /\ now > AUDIO_EXPIRY_SECONDS
    /\ \E t \in StatusReqs : st_resp[t] # NoResponse
    /\ \E v \in Viewers :
        v_fn[v] = "gen_audio" /\ v_pc[v] = "yield" /\ v_out[v].kind = "heartbeat"

\* C10: every payload a viewer hands out was stored in its slot by an upload
\* that completed earlier, and a step of the closing of one session (from its
\* exit at the yield or an error to the end of its finally block) changes
\* neither slot and nothing of another session.
C10_Stored ==
    \A v \in Viewers :
        /\ (v_out[v].kind = "frame" /\ v_out[v].payload # Empty) =>
              v_out[v].payload \in StoredVideo
        /\ v_out[v].kind = "audio" =>
              \E a \in StoredAudio : v_out[v].payload = b64encode(a)

Closing(i) ==
    /\ v_pc'[i] # v_pc[i]
    /\ v_pc'[i] \in {"finally", "dec_load", "dec_store", "ended"}

C10_CloseStep ==
    \A i \in Viewers :
        Closing(i) =>
            /\ UNCHANGED slots
            /\ \A j \in Viewers \ {i} :
                UNCHANGED <<v_fn[j], v_pc[j], v_item[j], v_time[j], v_out[j]>>

C10_FanoutIsolation == []C10_Stored /\ [][C10_CloseStep]_vars

\* one session has ended while another is at a yield with a stored payload
C10_Witness ==
    \E i \in Viewers, j \in Viewers :
        /\ i # j /\ v_pc[i] = "ended"
        /\ v_fn[i] = v_fn[j]
        /\ v_pc[j] = "yield" /\ v_out[j].kind \in {"frame", "audio"}
        /\ v_out[j] # Frame(Empty)

\* C9: with session 1 free to stay suspended for ever at its yield or in its
\* sleep, every upload that has started is answered, every status request that
\* has started is answered, and every other session that has had a unit read
\* produces the next one (or has ended).
C9_NoStall ==
    /\ \A u \in {1} : (up_pc[u] \in {"lock", "set_frame", "set_audio", "set_time", "return"})
                          ~> (up_pc[u] = "done")
    /\ \A t \in {1} : (st_pc[t] \in {"lock", "frame", "audio_lock", "audio", "return"})
                          ~> (st_pc[t] = "done")
    /\ \A v \in Viewers \ {Slow} :
          (v_pc[v] \in {"inc", "sleep"}) ~> (v_pc[v] \in {"yield", "ended"})

\* session 1 is suspended at a yield, and meanwhile an upload was answered
\* 200, a status request was answered and another session is at a yield
C9_Witness ==
    /\ v_pc[Slow] = "yield"
    /\ \E u \in {1} : up_resp[u] = 200
    /\ \E t \in {1} : st_resp[t] # NoResponse /\ st_resp[t].clients > 0
    /\ \E v \in Viewers \ {Slow} : v_pc[v] = "yield"

\* the threads inside a with block of each lock
InVideoSection ==
    {UpThread(u) : u \in {w \in Uploaders :
        up_fn[w] = "upload" /\ up_pc[w] \in {"set_frame", "set_time"}}}
    \cup {ViewThread(v) : v \in {w \in Viewers :
        v_fn[w] = "gen_frames"
        /\ v_pc[w] \in {"read_frame", "read_time", "dec_load", "dec_store"}}}
    \cup {StatusThread(t) : t \in {w \in StatusReqs : st_pc[w] = "frame"}}

InAudioSection ==
    {UpThread(u) : u \in {w \in Uploaders :
        up_fn[w] = "upload_audio" /\ up_pc[w] \in {"set_audio", "set_time"}}}
    \cup {ViewThread(v) : v \in {w \in Viewers :
        v_fn[w] = "gen_audio"
        /\ v_pc[w] \in {"read_audio", "read_time", "dec_load", "dec_store"}}}
    \cup {StatusThread(t) : t \in {w \in StatusReqs : st_pc[w] = "audio"}}

\* the threads inside a snapshot read of each slot
VideoReaders ==
    {ViewThread(v) : v \in {w \in Viewers :
        v_fn[w] = "gen_frames" /\ v_pc[w] \in {"read_frame", "read_time"}}}
    \cup {StatusThread(t) : t \in {w \in StatusReqs : st_pc[w] = "frame"}}

AudioReaders ==
    {ViewThread(v) : v \in {w \in Viewers :
        v_fn[w] = "gen_audio" /\ v_pc[w] \in {"read_audio", "read_time"}}}
    \cup {StatusThread(t) : t \in {w \in StatusReqs : st_pc[w] = "audio"}}

InLoop == {"loop", "read_frame", "read_audio", "read_time", "check", "yield", "sleep"}

InCleanup == {"finally", "dec_load", "dec_store", "ended"}

\* a step that takes session v out of its loop is a close or an error of v
C12_LeaveStep ==
    \A v \in Viewers :
        (v_pc[v] \notin InCleanup /\ v_pc'[v] \in InCleanup)
            => \/ gen_frames_close(v) \/ gen_frames_error(v)
               \/ gen_audio_close(v) \/ gen_audio_error(v)

\* every step of the loop's own code (acquire, read, yield, resume, wake)
\* leaves session v inside the loop
C12_LoopStep ==
    \A v \in Viewers :
        (\/ gen_frames_lock(v) \/ gen_frames_read_frame(v) \/ gen_frames_read_time(v)
         \/ gen_frames_yield(v) \/ gen_frames_resume(v) \/ gen_frames_wake(v)
         \/ gen_audio_lock(v) \/ gen_audio_read_audio(v) \/ gen_audio_read_time(v)
         \/ gen_audio_yield(v) \/ gen_audio_resume(v) \/ gen_audio_wake(v))
            => v_pc'[v] \in InLoop

C13_StatusStep ==
    \A t \in StatusReqs :
        StatusStep(t) => UNCHANGED <<slots, counters, upvars, viewvars, history>>

\* status request t holds a lock only inside the with block it took it for
C13_StatusLocks ==
    \A t \in StatusReqs :
        /\ lock = StatusThread(t) <=> st_pc[t] = "frame"
        /\ audio_lock = StatusThread(t) <=> st_pc[t] = "audio"

\* C13: no step of a status request changes a slot's payload or timestamp, a
\* connection counter, or anything an upload or a session holds; a status
\* request holds lock only while it reads the video pair and audio_lock only
\* while it reads the audio pair, so when it returns it holds neither.
C13_StatusReadOnly ==
    /\ [][C13_StatusStep]_vars
    /\ [](C13_StatusLocks)

\* a status request has been answered after an upload was stored and a
\* session was counted, and both locks are free
C13_Witness ==
    \E t \in StatusReqs :
        /\ st_pc[t] = "done"
        /\ st_resp[t].status = "Online"
        /\ st_resp[t].clients = 1
        /\ current_frame # None
        /\ lock = NoThread /\ audio_lock = NoThread

\* thread th holds neither lock
HoldsNone(th) == lock # th /\ audio_lock # th

\* C14: a session suspended at its yield or in its sleep, an upload handler
\* sending its response (or already answered), and a status request building
\* its response hold neither lock nor audio_lock; a session holds a lock only
\* between an acquire and the end of the one read of the pair (or of the
\* counter decrement), an upload only for the one write of the pair.
C14_NoLockAcrossIO ==
    /\ \A v \in Viewers :
        /\ v_pc[v] \in {"yield", "sleep", "check", "loop", "inc", "idle", "finally", "ended"}
              => HoldsNone(ViewThread(v))
        /\ ~HoldsNone(ViewThread(v))
              => v_pc[v] \in {"read_frame", "read_audio", "read_time", "dec_load", "dec_store"}
    /\ \A u \in Uploaders :
        /\ up_pc[u] \in {"return", "done", "idle", "lock"} => HoldsNone(UpThread(u))
        /\ ~HoldsNone(UpThread(u)) => up_pc[u] \in {"set_frame", "set_audio", "set_time"}
    /\ \A t \in StatusReqs :
        st_pc[t] \in {"return", "done", "idle"} => HoldsNone(StatusThread(t))

\* a session is suspended at its yield with a unit out, an upload handler is
\* sending its 200, and meanwhile another upload is inside the with block
C14_Witness ==
    /\ \E v \in Viewers : v_pc[v] = "yield" /\ v_out[v] # NoUnit
    /\ \E u, w \in Uploaders :
        /\ up_pc[u] = "return"
        /\ lock = UpThread(w) \/ audio_lock = UpThread(w)

\* the steps of the video route and of the audio route of an upload thread
VideoUploadStep(u) ==
    \/ upload(u) \/ upload_lock(u) \/ upload_set_frame(u)
    \/ upload_set_time(u) \/ upload_return(u)

AudioUploadStep(u) ==
    \/ upload_audio(u) \/ upload_audio_lock(u) \/ upload_audio_set_audio(u)
    \/ upload_audio_set_time(u) \/ upload_audio_return(u)

\* a video step leaves the audio slot, audio counter and audio lock alone, and
\* a session's step leaves both slots alone; the same the other way round
C15_RouteStep ==
    /\ \A u \in Uploaders :
        /\ VideoUploadStep(u)
              => UNCHANGED <<current_audio, audio_time, counters, audio_lock,
                             written_audio, last_audio>>
        /\ AudioUploadStep(u)
              => UNCHANGED <<current_frame, frame_time, counters, lock,
                             written_video, last_video>>
    /\ \A v \in Viewers :
        /\ FramesStep(v) => UNCHANGED <<slots, audio_clients_count, audio_lock, history>>
        /\ AudioStep(v) => UNCHANGED <<slots, clients_count, lock, history>>

\* no thread holds lock and audio_lock together
C15_NeverBoth == lock = NoThread \/ audio_lock = NoThread \/ lock # audio_lock

\* C15: a video upload or video session never touches audio_lock, the audio
\* slot or audio_clients_count, an audio upload or audio session never touches
\* lock, the video slot or clients_count, and no thread, a status request
\* included, holds both locks at once.
C15_NoContention ==
    /\ [][C15_RouteStep]_vars
    /\ [](C15_NeverBoth)

\* a video session is inside its read under lock while an audio upload is
\* inside its write under audio_lock
C15_Witness ==
    /\ \E v \in Viewers : lock = ViewThread(v) /\ v_fn[v] = "gen_frames"
    /\ \E u \in Uploaders : audio_lock = UpThread(u) /\ up_fn[u] = "upload_audio"

\* the sessions of one generator that have started and not begun their cleanup
ActiveSessions(fn) ==
    {v \in DOMAIN v_pc : v_fn[v] = fn /\ v_pc[v] \in InLoop \cup {"inc"}}

\* a session that has started goes on to its loop: no step rejects it
C16_StartStep ==
    \A v \in DOMAIN v_pc :
        /\ v_pc[v] = "idle" => v_pc'[v] \in {"idle", "inc"}
        /\ v_pc[v] = "inc" => v_pc'[v] \in {"inc", "loop"}

\* C16: whatever the two counters hold, a client that connects can start a
\* video session and can start an audio session, a session that has started
\* can store its increment, and its next step takes it into its loop; nothing
\* compares a counter with MAX_CLIENTS.
C16_AlwaysAdmitted ==
    /\ [](\A v \in DOMAIN v_pc :
            /\ v_pc[v] = "idle" => ENABLED gen_frames_load(v) /\ ENABLED gen_audio_load(v)
            /\ (v_fn[v] = "gen_frames" /\ v_pc[v] = "inc") => ENABLED gen_frames_store(v)
            /\ (v_fn[v] = "gen_audio" /\ v_pc[v] = "inc") => ENABLED gen_audio_store(v))
    /\ [][C16_StartStep]_vars

\* more than MAX_CLIENTS video sessions and more than MAX_CLIENTS audio
\* sessions are in their loops at once, and the counters say so
C16_Witness ==
    /\ Cardinality({v \in ActiveSessions("gen_frames") : v_pc[v] \in InLoop}) > MAX_CLIENTS
    /\ clients_count > MAX_CLIENTS
    /\ Cardinality({v \in ActiveSessions("gen_audio") : v_pc[v] \in InLoop}) > MAX_CLIENTS
    /\ audio_clients_count > MAX_CLIENTS

\* C17: clients_count and audio_clients_count are never negative.
C17_CountersNonNegative == clients_count >= 0 /\ audio_clients_count >= 0

\* no step empties a slot, and a status request that reads a slot holding a
\* payload computes the online or the offline text for it
C18_KeepStep ==
    /\ current_frame # None => current_frame' # None
    /\ current_audio # None => current_audio' # None
    /\ \A t \in StatusReqs :
        /\ (status_frame(t) /\ written_video # {})
              => st_text'[t] \in {"Online", "Camera offline"}
        /\ (status_audio(t) /\ written_audio # {})
              => st_audio_text'[t] \in {"Receiving audio", "Microphone offline"}

\* C18: once an upload to a slot has completed the slot holds a non-empty
\* payload in every later state, whatever its age, and every status request
\* that reads the slot from then on reports it online or offline, never
\* "received yet".
C18_NeverEmptyAgain ==
    /\ [](written_video # {} => current_frame \in Payloads)
    /\ [](written_audio # {} => current_audio \in Payloads)
    /\ [][C18_KeepStep]_vars

\* the frame stored long ago is still in the slot, a status request has read
\* it and reports the camera offline, and a session has read it and found it
\* stale
C18_Witness ==
    /\ written_video # {} /\ current_frame \in Payloads
    /\ now - frame_time > FRAME_EXPIRY_SECONDS
    /\ \E t \in StatusReqs : st_pc[t] = "done" /\ st_resp[t].status = "Camera offline"
    /\ \E v \in Viewers : v_pc[v] = "yield" /\ v_out[v] = Frame(Empty)
                          /\ v_item[v] \in Payloads

\* the thread that holds a lock is not waiting for anything: its next
\* statement inside the with block can run
C19_HolderRuns ==
    /\ \A u \in {1} : ~HoldsNone(UpThread(u)) => ENABLED UploadRun(u)
    /\ \A v \in Viewers : ~HoldsNone(ViewThread(v)) => ENABLED ViewerRun(v)
    /\ \A t \in {1} : ~HoldsNone(StatusThread(t)) => ENABLED StatusRun(t)

\* C19: under fair scheduling every thread standing at a with statement gets
\* the lock it asks for: an upload enters its write, a status request enters
\* each of its two reads, a session (the one whose client has stopped reading
\* included) standing at the head of its loop enters its read, and a session
\* standing at its finally block (from where no read can follow) takes the
\* lock and completes its decrement. No holder of a lock ever waits for a
\* lock, so no cycle of waits exists.
C19_DeadlockFree ==
    /\ [](C19_HolderRuns)
    /\ \A u \in {1} : (up_pc[u] = "lock") ~> ~HoldsNone(UpThread(u))
    /\ \A t \in {1} :
        (st_pc[t] \in {"lock", "audio_lock"}) ~> ~HoldsNone(StatusThread(t))
    /\ \A v \in Viewers :
        (v_pc[v] \in {"loop", "finally"})
            ~> \/ v_pc[v] \in {"read_frame", "read_audio"} /\ ~HoldsNone(ViewThread(v))
               \/ v_pc[v] = "ended" /\ v_decs[v] = 1

\* three threads wait for lock at once: a session at the with statement of
\* its finally block, an upload and the status request at theirs, while the
\* other session is inside its read under that lock
C19_Witness ==
    \E v, w \in Viewers :
        /\ v # w
        /\ v_pc[v] = "finally" /\ v_fn[v] = "gen_frames"
        /\ lock = ViewThread(w)
        /\ up_pc[1] = "lock" /\ up_fn[1] = "upload"
        /\ st_pc[1] = "lock"
====
